---- MODULE Spec2Model ----
(***************************************************************************)
(* Model of the compose service (src/app/service.py): candidate            *)
(* resolution, offer ranking and selection, smartphone selection, the      *)
(* formatters and the payload assembly, over a catalog loaded by           *)
(* src/app/catalog.py and an optional vector index filled by               *)
(* src/segmentationRAG/build_index.py.                                     *)
(*                                                                         *)
(* Python values of the numeric columns are records [k, v]:                *)
(*   k = "None"       None                                                 *)
(*   k = "str_empty"  the string ""                                        *)
(*   k = "str_bad"    a non-numeric string such as "abc"                   *)
(*   k = "str_num"    a numeric string; v is its value in tenths           *)
(*   k = "float"      a float; v is its value in tenths                    *)
(*   k = "int"        an int; v is its value                               *)
(*   k = "ValueError", "TypeError"   the call raised that exception        *)
(* Display strings built by the formatters are [k |-> unit, v |-> n]; a     *)
(* "Go" display holds v in tenths and dec, the number of decimals printed. *)
(* Text columns are strings, "" standing for both "" and a missing value   *)
(* (the code only tests them for truth).                                   *)
(***************************************************************************)
EXTENDS Integers, Sequences, FiniteSets, TLC

VARIABLES
    catalog,     \* CatalogData: [offres, smartphones], loaded once
    index,       \* the vector backend's collections: [offres, smartphones]
    qdrant,      \* self.qdrant is not None
    backendUp,   \* the vector backend answers
    today,       \* date.today(): [y, m, d]
    op,          \* the last operation
    req,         \* its arguments
    consulted,   \* the sources the resolver consulted, with their results
    candidates,  \* what the resolver returned
    ranked,      \* what _rank_offres returned
    choices,     \* the records the selection may return
    chosen,      \* {} or {the record chosen}
    result       \* what the operation returned, or the exception it raised

vars == <<catalog, index, qdrant, backendUp, today,
          op, req, consulted, candidates, ranked, choices, chosen, result>>

-----------------------------------------------------------------------------
(* Python values *)

NoneV == [k |-> "None", v |-> 0]
EmptyV == [k |-> "str_empty", v |-> 0]
BadV == [k |-> "str_bad", v |-> 0]
NumS(t) == [k |-> "str_num", v |-> t]
Float(t) == [k |-> "float", v |-> t]
PyInt(n) == [k |-> "int", v |-> n]
ValueErr == [k |-> "ValueError", v |-> 0]
TypeErr == [k |-> "TypeError", v |-> 0]

Raised(x) == x.k \in {"ValueError", "TypeError"}

\* truth value of a Python value: None, "", 0 and 0.0 are false
Truthy(x) ==
    CASE x.k \in {"None", "str_empty"} -> FALSE
      [] x.k \in {"int", "float"} -> x.v # 0
      [] OTHER -> TRUE

\* a whole number n as tenths
D(n) == n * 10

\* int(x) of a float given in tenths: truncation towards zero
Trunc(t) == IF t >= 0 THEN t \div 10 ELSE -((-t) \div 10)

\* round(a / b) for b > 0, ties to the even integer (Python 3 round)
RoundHalfEven(a, b) ==
    LET q == a \div b
        r == a % b
    IN  IF 2 * r < b THEN q
        ELSE IF 2 * r > b THEN q + 1
        ELSE IF q % 2 = 0 THEN q ELSE q + 1

\* the builtin float(value)
PyFloat(value) ==
    CASE value.k = "None" -> TypeErr
      [] value.k \in {"str_empty", "str_bad"} -> ValueErr
      [] value.k = "int" -> Float(D(value.v))
      [] value.k \in {"str_num", "float"} -> Float(value.v)
      [] OTHER -> TypeErr

-----------------------------------------------------------------------------
(* Formatters *)

\* faulty variant of _safe_cast: the except clause is missing
SafeCastNoExcept(value) ==
    IF value.k \in {"None", "str_empty"} THEN NoneV ELSE PyFloat(value)

_safe_cast(value) ==
    IF value.k \in {"None", "str_empty"} THEN NoneV
    ELSE LET f == PyFloat(value)
         IN  IF Raised(f) THEN NoneV ELSE f

\* _safe_cast(x) or 0, the sort key of the resolver and of rank rule 2
PriceOrZero(value) ==
    LET p == _safe_cast(value) IN IF Truthy(p) THEN p.v ELSE 0

\* f"{gb:.1f} Go" for gb = mb / 1024, mb in tenths: one decimal is printed.
\* A tie of the rounding is exact, and rounded to even, when mb is a whole
\* number; the inputs of the model have no other tie.
OneDecimal(mb) == [k |-> "Go", v |-> RoundHalfEven(mb, 1024), dec |-> 1]

\* faulty variant of DropDotZero: the replace is missing
KeepDotZero(text) == text

\* text.replace(".0", ""): a zero decimal is dropped
DropDotZero(text) ==
    IF text.dec = 1 /\ text.v % 10 = 0 THEN [text EXCEPT !.dec = 0] ELSE text

_fmt_volume(value) ==
    IF value.k \in {"None", "str_empty"} THEN NoneV
    ELSE LET f == PyFloat(value)
         IN  IF f = ValueErr THEN NoneV
             ELSE IF Raised(f) THEN f
             ELSE IF f.v >= D(1024)
                  THEN IF f.v % D(1024) = 0
                       THEN [k |-> "Go", v |-> D(f.v \div D(1024)), dec |-> 0]
                       ELSE DropDotZero(OneDecimal(f.v))
                  ELSE [k |-> "Mo", v |-> Trunc(f.v)]

\* faulty variant of _fmt_minutes: the sign is tested before the truncation
FmtMinutesSignFirst(value) ==
    IF value.k \in {"None", "str_empty"} THEN NoneV
    ELSE LET f == PyFloat(value)
         IN  IF f = ValueErr THEN NoneV
             ELSE IF Raised(f) THEN f
             ELSE IF f.v < 0 THEN [k |-> "illimite", v |-> 0]
                  ELSE [k |-> "min", v |-> Trunc(f.v)]

_fmt_minutes(value) ==
    IF value.k \in {"None", "str_empty"} THEN NoneV
    ELSE LET f == PyFloat(value)
         IN  IF f = ValueErr THEN NoneV
             ELSE IF Raised(f) THEN f
             ELSE IF Trunc(f.v) < 0 THEN [k |-> "illimite", v |-> 0]
                  ELSE [k |-> "min", v |-> Trunc(f.v)]

Max(a, b) == IF a >= b THEN a ELSE b

\* faulty variant of _pick_discount: the floor at 1 is missing
PickDiscountNoFloor(price) ==
    IF price.k = "None" THEN NoneV
    ELSE PyInt(RoundHalfEven(3 * price.v, 40))

\* price is None or a float (tenths); the result is None or an int
_pick_discount(price) ==
    IF price.k = "None" THEN NoneV
    ELSE PyInt(Max(RoundHalfEven(3 * price.v, 40), 1))

\* int(float(x)), unguarded, as compose_offre applies it to sms and validite
IntOfFloat(value) ==
    LET f == PyFloat(value) IN IF Raised(f) THEN f ELSE PyInt(Trunc(f.v))

-----------------------------------------------------------------------------
(* Text of the brand columns: a sequence of one-character strings *)

Lowers == <<"a","b","c","d","e","f","g","h","i","j","k","l","m",
            "n","o","p","q","r","s","t","u","v","w","x","y","z">>
Uppers == <<"A","B","C","D","E","F","G","H","I","J","K","L","M",
            "N","O","P","Q","R","S","T","U","V","W","X","Y","Z">>

UpperChar(c) ==
    IF \E i \in 1..Len(Lowers) : Lowers[i] = c
    THEN Uppers[CHOOSE i \in 1..Len(Lowers) : Lowers[i] = c]
    ELSE c

\* str.upper()
Upper(s) == [i \in 1..Len(s) |-> UpperChar(s[i])]

\* key in s
Contains(s, key) ==
    \E i \in 1..(Len(s) - Len(key) + 1) : SubSeq(s, i, i + Len(key) - 1) = key

APPLE == <<"A","P","P","L","E">>
SAMSUNG == <<"S","A","M","S","U","N","G">>
XIAOMI == <<"X","I","A","O","M","I">>
OPPO == <<"O","P","P","O">>
HONOR == <<"H","O","N","O","R">>
TECNO == <<"T","E","C","N","O">>
IPHONE == <<"I","P","H","O","N","E">>

\* the alias table, in the order the dict is iterated
BrandLookup ==
    << <<IPHONE, APPLE>>, <<APPLE, APPLE>>, <<SAMSUNG, SAMSUNG>>,
       <<XIAOMI, XIAOMI>>, <<OPPO, OPPO>>, <<HONOR, HONOR>>, <<TECNO, TECNO>> >>

\* faulty variant of _norm_brand: the value is not uppercased
NormBrandCaseSensitive(value) ==
    LET hits == {i \in 1..Len(BrandLookup) : Contains(value, BrandLookup[i][1])}
    IN  IF hits = {} THEN <<>>
        ELSE BrandLookup[CHOOSE i \in hits : \A j \in hits : i <= j][2]

_norm_brand(value) ==
    LET upper == Upper(value)
        hits == {i \in 1..Len(BrandLookup) : Contains(upper, BrandLookup[i][1])}
    IN  IF hits = {} THEN <<>>
        ELSE BrandLookup[CHOOSE i \in hits : \A j \in hits : i <= j][2]

-----------------------------------------------------------------------------
(* Lists *)

\* The indices 1..n of keys in the order a stable sort puts them: index i is
\* inserted behind every index already placed that does not come after it.
RECURSIVE Order(_, _, _)
Order(keys, n, desc) ==
    IF n = 0 THEN <<>>
    ELSE LET sq == Order(keys, n - 1, desc)
             before == Cardinality({p \in 1..Len(sq) :
                          IF desc THEN keys[sq[p]] >= keys[n] ELSE keys[sq[p]] <= keys[n]})
         IN  SubSeq(sq, 1, before) \o <<n>> \o SubSeq(sq, before + 1, Len(sq))

\* sorted(items, key): stable; keys[i] is the key of items[i]
SortedAsc(items, keys) ==
    LET ord == Order(keys, Len(items), FALSE)
    IN  [p \in 1..Len(items) |-> items[ord[p]]]

\* sorted(items, key, reverse=True): stable, equal keys keep their order
SortedDesc(items, keys) ==
    LET ord == Order(keys, Len(items), TRUE)
    IN  [p \in 1..Len(items) |-> items[ord[p]]]

\* [x for x in items if Keep(x)]
RECURSIVE FilterIdx(_, _, _)
FilterIdx(items, keep, i) ==
    IF i > Len(items) THEN <<>>
    ELSE (IF i \in keep THEN <<items[i]>> ELSE <<>>) \o FilterIdx(items, keep, i + 1)

Reversed(s) == [i \in 1..Len(s) |-> s[Len(s) + 1 - i]]

Prefix(s, n) == SubSeq(s, 1, IF Len(s) < n THEN Len(s) ELSE n)

Range(s) == {s[i] : i \in 1..Len(s)}

\* the resolver's sort: key = _safe_cast(prix_dh) or 0
SortByPrice(items) ==
    SortedAsc(items, [i \in 1..Len(items) |-> PriceOrZero(items[i].prix_dh)])

-----------------------------------------------------------------------------
(* Records.  A CSV row holds strings only and has no "type" key (type = "");
   an index payload holds what build_index.py stored. *)

OffreRow(cta, famille, libelle, volume, minutes, sms, validite, prix, zone, link) ==
    [type |-> "", cta |-> cta, famille |-> famille, libelle |-> libelle,
     volume |-> volume, minutes |-> minutes, sms |-> sms,
     validite_jours |-> validite, prix_dh |-> prix, zone |-> zone, link |-> link]

PhoneRow(marque, modele, capacite, prix, link) ==
    [type |-> "", marque |-> marque, modele |-> modele, capacite |-> capacite,
     prix_dh |-> prix, link |-> link, cta |-> ""]

\* build_index.to_int: any failure gives None
to_int(x) ==
    IF x.k \in {"None", "str_empty"} THEN NoneV
    ELSE LET f == PyFloat(x) IN IF Raised(f) THEN NoneV ELSE PyInt(Trunc(f.v))

\* float(str(prix_dh)) if prix_dh else None: raises on a non-numeric string
IndexPrice(x) == IF Truthy(x) THEN PyFloat(x) ELSE NoneV

OffrePayload(r) ==
    [r EXCEPT !.type = "offre", !.volume = to_int(r.volume),
              !.minutes = to_int(r.minutes), !.sms = to_int(r.sms),
              !.validite_jours = to_int(r.validite_jours),
              !.prix_dh = IndexPrice(r.prix_dh)]

PhonePayload(r) ==
    [r EXCEPT !.type = "smartphone", !.marque = Upper(r.marque),
              !.prix_dh = IndexPrice(r.prix_dh)]

EmptyIndex == [offres |-> <<>>, smartphones |-> <<>>]

\* The script builds the offer payloads, upserts them, then does the same for
\* the smartphones; an exception ends it where it is raised.
BuildIndex(cat) ==
    LET badOffre == \E i \in 1..Len(cat.offres) : Raised(IndexPrice(cat.offres[i].prix_dh))
        badPhone == \E i \in 1..Len(cat.smartphones) :
                        Raised(IndexPrice(cat.smartphones[i].prix_dh))
        offres == [i \in 1..Len(cat.offres) |-> OffrePayload(cat.offres[i])]
        phones == [i \in 1..Len(cat.smartphones) |-> PhonePayload(cat.smartphones[i])]
    IN  IF badOffre THEN EmptyIndex
        ELSE IF badPhone THEN [offres |-> offres, smartphones |-> <<>>]
        ELSE [offres |-> offres, smartphones |-> phones]

-----------------------------------------------------------------------------
(* Candidate resolver *)

ScrollLimit == 50

\* QdrantClient.scroll: the points whose payload matches every condition, at
\* most ScrollLimit of them.  filters is a list of <<key, value>>.
Scroll(points, filters) ==
    LET keep == {i \in 1..Len(points) :
                    \A n \in 1..Len(filters) : points[i][filters[n][1]] = filters[n][2]}
    IN  Prefix(FilterIdx(points, keep, 1), ScrollLimit)

\* fails: the scroll raises (backend unreachable, timeout)
_query_qdrant(handle, points, filters, fails) ==
    IF ~handle THEN <<>>
    ELSE IF fails THEN <<>>
    ELSE SortByPrice(Scroll(points, filters))

\* faulty variant of _local_offres: the cta-only fallback is missing
LocalOffresStrictOnly(offres, famille, cta) ==
    SortByPrice(FilterIdx(offres, {i \in 1..Len(offres) :
                   offres[i].cta = cta /\ offres[i].famille = famille}, 1))

\* faulty variant of _local_offres: the trailing sort is missing
LocalOffresUnsorted(offres, famille, cta) ==
    LET strict == FilterIdx(offres, {i \in 1..Len(offres) :
                     offres[i].cta = cta /\ offres[i].famille = famille}, 1)
        fallback == FilterIdx(offres, {i \in 1..Len(offres) : offres[i].cta = cta}, 1)
    IN  IF strict # <<>> THEN strict ELSE fallback

\* faulty variant of _local_offres: without an offer of the famille, every offer
\* of the catalog is returned
LocalOffresAnyCta(offres, famille, cta) ==
    LET strict == FilterIdx(offres, {i \in 1..Len(offres) :
                     offres[i].cta = cta /\ offres[i].famille = famille}, 1)
    IN  SortByPrice(IF strict # <<>> THEN strict ELSE offres)

\* faulty variant of _local_offres: the famille is not looked at
LocalOffresCtaOnly(offres, famille, cta) ==
    SortByPrice(FilterIdx(offres, {i \in 1..Len(offres) : offres[i].cta = cta}, 1))

_local_offres(offres, famille, cta) ==
    LET strict == FilterIdx(offres, {i \in 1..Len(offres) :
                     offres[i].cta = cta /\ offres[i].famille = famille}, 1)
        fallback == FilterIdx(offres, {i \in 1..Len(offres) : offres[i].cta = cta}, 1)
    IN  SortByPrice(IF strict # <<>> THEN strict ELSE fallback)

\* faulty variant of _local_smartphones: the brand's records are returned even
\* when there are none
LocalSmartphonesBrandOnly(phones, brand) ==
    LET filtered == FilterIdx(phones, {i \in 1..Len(phones) :
                       Upper(phones[i].marque) = brand}, 1)
    IN  SortByPrice(IF brand # <<>> THEN filtered ELSE phones)

_local_smartphones(phones, brand) ==
    LET filtered == FilterIdx(phones, {i \in 1..Len(phones) :
                       Upper(phones[i].marque) = brand}, 1)
    IN  SortByPrice(IF brand # <<>> /\ filtered # <<>> THEN filtered ELSE phones)

\* self.catalog.offres after _local_offres ran: strict and fallback are new
\* lists, and the sort acts on one of them
OffresAfterLocal(offres, famille, cta) == offres

\* faulty variant of SmartphonesAfterLocal: records is the catalog's list, not a
\* copy of it, and the sort acts on it unless the brand filter replaced it
SmartphonesAfterLocalInPlace(phones, brand) ==
    LET filtered == FilterIdx(phones, {i \in 1..Len(phones) :
                       Upper(phones[i].marque) = brand}, 1)
    IN  IF brand # <<>> /\ filtered # <<>> THEN phones ELSE SortByPrice(phones)

\* self.catalog.smartphones after _local_smartphones ran: records is a copy
\* ([:]) of the catalog's list, and the sort acts on the copy
SmartphonesAfterLocal(phones, brand) == phones

\* faulty variant of OffreConsults: the relaxed query is made whatever the strict
\* one returned
OffreConsultsBothQueries(cat, idx, handle, famille, cta, f1, f2) ==
    LET strict == _query_qdrant(handle, idx.offres,
                    << <<"type", "offre">>, <<"cta", cta>>, <<"famille", famille>> >>, f1)
        relaxed == _query_qdrant(handle, idx.offres,
                    << <<"type", "offre">>, <<"cta", cta>> >>, f2)
        remote == IF ~handle THEN <<>>
                  ELSE << [source |-> "strict", found |-> strict],
                          [source |-> "relaxed", found |-> relaxed] >>
    IN  IF remote # <<>> /\ remote[Len(remote)].found # <<>> THEN remote
        ELSE remote \o << [source |-> "local",
                           found |-> _local_offres(cat.offres, famille, cta)] >>

\* The sources _query_offre consults, in order, with what each returned.
\* f1, f2: the strict and the relaxed scroll raise.
OffreConsults(cat, idx, handle, famille, cta, f1, f2) ==
    LET strict == _query_qdrant(handle, idx.offres,
                    << <<"type", "offre">>, <<"cta", cta>>, <<"famille", famille>> >>, f1)
        relaxed == _query_qdrant(handle, idx.offres,
                    << <<"type", "offre">>, <<"cta", cta>> >>, f2)
        remote == IF ~handle THEN <<>>
                  ELSE IF strict # <<>> THEN << [source |-> "strict", found |-> strict] >>
                  ELSE << [source |-> "strict", found |-> strict],
                          [source |-> "relaxed", found |-> relaxed] >>
    IN  IF remote # <<>> /\ remote[Len(remote)].found # <<>> THEN remote
        ELSE remote \o << [source |-> "local",
                           found |-> _local_offres(cat.offres, famille, cta)] >>

_query_offre(cat, idx, handle, famille, cta, f1, f2) ==
    LET c == OffreConsults(cat, idx, handle, famille, cta, f1, f2)
    IN  c[Len(c)].found

PhoneConsults(cat, idx, handle, brand, f1) ==
    LET filters == << <<"type", "smartphone">> >> \o
                   (IF brand # <<>> THEN << <<"marque", brand>> >> ELSE <<>>)
        remote == IF ~handle THEN <<>>
                  ELSE << [source |-> "remote",
                           found |-> _query_qdrant(handle, idx.smartphones, filters, f1)] >>
    IN  IF remote # <<>> /\ remote[1].found # <<>> THEN remote
        ELSE remote \o << [source |-> "local",
                           found |-> _local_smartphones(cat.smartphones, brand)] >>

_query_smartphone(cat, idx, handle, brand, f1) ==
    LET c == PhoneConsults(cat, idx, handle, brand, f1)
    IN  c[Len(c)].found

-----------------------------------------------------------------------------
(* Ranking engine *)

ROTATING_CTAS == {"*6", "*5", "*4", "*3", "*2", "*1", "*22", "*88", "Forfait_Business"}

\* the names of the model that start with the prefix (str.startswith)
StartsWith(s, prefix) ==
    CASE prefix = "RISQUE_" -> s \in {"RISQUE_Churn", "RISQUE_Impayes"}
      [] prefix = "CHURN_" -> s \in {"CHURN_Competiteur", "CHURN_Prix"}
      [] OTHER -> FALSE

\* volume_mb: float(volume or 0), 0.0 when that raises
volume_mb(item) ==
    IF ~Truthy(item.volume) THEN 0
    ELSE LET f == PyFloat(item.volume) IN IF Raised(f) THEN 0 ELSE f.v

\* faulty variant of _rank_offres: rule 1 sorts ascending
RankOffresVolumeAsc(cands, persona, famille, cta) ==
    IF cands = <<>> THEN <<>>
    ELSE IF famille = "USAGE_Internet" /\ persona \in {"PROFIL_Internet", "PROFIL_ReseauxSociaux"}
    THEN SortedAsc(cands, [i \in 1..Len(cands) |-> volume_mb(cands[i])])
    ELSE IF StartsWith(famille, "RISQUE_") \/ StartsWith(persona, "CHURN_")
            \/ persona = "PROFIL_Econome"
    THEN SortByPrice(cands)
    ELSE cands

\* faulty variant of _rank_offres: rule 2 applies to the RISQUE_ families only
RankOffresFamilleOnly(cands, persona, famille, cta) ==
    IF cands = <<>> THEN <<>>
    ELSE IF famille = "USAGE_Internet" /\ persona \in {"PROFIL_Internet", "PROFIL_ReseauxSociaux"}
    THEN SortedDesc(cands, [i \in 1..Len(cands) |-> volume_mb(cands[i])])
    ELSE IF StartsWith(famille, "RISQUE_") THEN SortByPrice(cands)
    ELSE cands

_rank_offres(cands, persona, famille, cta) ==
    IF cands = <<>> THEN <<>>
    ELSE IF famille = "USAGE_Internet" /\ persona \in {"PROFIL_Internet", "PROFIL_ReseauxSociaux"}
    THEN SortedDesc(cands, [i \in 1..Len(cands) |-> volume_mb(cands[i])])
    ELSE IF StartsWith(famille, "RISQUE_") \/ StartsWith(persona, "CHURN_")
            \/ persona = "PROFIL_Econome"
    THEN SortByPrice(cands)
    ELSE IF cta \in ROTATING_CTAS THEN cands
    ELSE cands

\* min(ranked, key = price, or +infinity when the price is None): the first
\* item no other item is cheaper than
MinByPrice(items) ==
    LET p(i) == _safe_cast(items[i].prix_dh)
        less(i, j) == p(i).k # "None" /\ (p(j).k = "None" \/ p(i).v < p(j).v)
        mins == {i \in 1..Len(items) : \A j \in 1..Len(items) : ~less(j, i)}
    IN  items[CHOOSE i \in mins : \A j \in mins : i <= j]

\* faulty variant of OffreChoices: PROFIL_Econome takes the first of the price sort,
\* where a missing price counts as 0
OffreChoicesAbsentAsZero(rk, persona, famille) ==
    IF rk = <<>> THEN {}
    ELSE IF persona = "PROFIL_Econome" THEN {SortByPrice(rk)[1]}
    ELSE IF famille # "OPPORTUNITE_Achat_Equipement" /\ Len(rk) > 1 THEN Range(rk)
    ELSE {rk[1]}

\* faulty variant of OffreChoices: the famille test is missing
OffreChoicesAnyFamille(rk, persona, famille) ==
    IF rk = <<>> THEN {}
    ELSE IF persona = "PROFIL_Econome" THEN {MinByPrice(rk)}
    ELSE IF Len(rk) > 1 THEN Range(rk)
    ELSE {rk[1]}

\* the offers compose_offre may choose from a non-empty ranked list
\* (random.choice returns any element)
OffreChoices(rk, persona, famille) ==
    IF rk = <<>> THEN {}
    ELSE IF persona = "PROFIL_Econome" THEN {MinByPrice(rk)}
    ELSE IF famille # "OPPORTUNITE_Achat_Equipement" /\ Len(rk) > 1 THEN Range(rk)
    ELSE {rk[1]}

-----------------------------------------------------------------------------
(* Smartphone selection *)

PoolSize == 15
TopBrand == 3

\* faulty variant of SortedAscPriced: the candidates are not kept when none has a
\* price
SortedAscPricedOnly(cands) ==
    LET priced == FilterIdx(cands, {i \in 1..Len(cands) :
                     _safe_cast(cands[i].prix_dh).k # "None"}, 1)
    IN  SortedAsc(priced, [i \in 1..Len(priced) |-> _safe_cast(priced[i].prix_dh).v])

SortedAscPriced(cands) ==
    LET priced == FilterIdx(cands, {i \in 1..Len(cands) :
                     _safe_cast(cands[i].prix_dh).k # "None"}, 1)
    IN  IF priced # <<>>
        THEN SortedAsc(priced, [i \in 1..Len(priced) |-> _safe_cast(priced[i].prix_dh).v])
        ELSE cands

\* faulty variant of SelectionPool: the slices are missing
SelectionPoolUnsliced(cands, persona, brand) ==
    IF persona = "OPPORTUNITE_PerformanceSmartphone"
    THEN Reversed(SortedAscPriced(cands))
    ELSE SortedAscPriced(cands)

\* faulty variant of SelectionPool: OPPORTUNITE_AchatNouveaute does not look at the
\* brand
SelectionPoolAnyBrand(cands, persona, brand) ==
    LET sorted_asc == SortedAscPriced(cands)
        sorted_desc == Reversed(sorted_asc)
    IN  IF persona = "OPPORTUNITE_AchatSmartphone" THEN Prefix(sorted_asc, PoolSize)
        ELSE IF persona = "OPPORTUNITE_PerformanceSmartphone" THEN Prefix(sorted_desc, PoolSize)
        ELSE IF persona = "OPPORTUNITE_AchatNouveaute" /\ brand # <<>>
        THEN Prefix(sorted_desc, TopBrand)
        ELSE sorted_asc

\* the pool of _select_smartphone_candidate before its empty-pool fallback
SelectionPool(cands, persona, brand) ==
    LET sorted_asc == SortedAscPriced(cands)
        sorted_desc == Reversed(sorted_asc)
        brand_items == FilterIdx(cands, {i \in 1..Len(cands) :
                          Upper(cands[i].marque) = brand}, 1)
        brand_with_price == FilterIdx(brand_items, {i \in 1..Len(brand_items) :
                          _safe_cast(brand_items[i].prix_dh).k # "None"}, 1)
    IN  IF persona = "OPPORTUNITE_AchatSmartphone" THEN Prefix(sorted_asc, PoolSize)
        ELSE IF persona = "OPPORTUNITE_PerformanceSmartphone" THEN Prefix(sorted_desc, PoolSize)
        ELSE IF persona = "OPPORTUNITE_AchatNouveaute" /\ brand # <<>>
        THEN IF brand_items # <<>>
             THEN IF brand_with_price # <<>>
                  THEN Prefix(SortedDesc(brand_with_price,
                           [i \in 1..Len(brand_with_price) |->
                               _safe_cast(brand_with_price[i].prix_dh).v]), TopBrand)
                  ELSE Prefix(brand_items, TopBrand)
             ELSE <<>>
        ELSE sorted_asc

\* faulty variant of PhoneChoices: an empty pool gives None
PhoneChoicesNoFallback(cands, persona, brand) ==
    IF cands = <<>> THEN {}
    ELSE Range(SelectionPool(cands, persona, brand))

\* the smartphones _select_smartphone_candidate may return; {} when it
\* returns None
PhoneChoices(cands, persona, brand) ==
    IF cands = <<>> THEN {}
    ELSE LET pool == SelectionPool(cands, persona, brand)
         IN  IF pool # <<>> THEN Range(pool) ELSE Range(SortedAscPriced(cands))

-----------------------------------------------------------------------------
(* Payload assembler *)

MONTHS_FR == <<"janvier", "fevrier", "mars", "avril", "mai", "juin", "juillet",
               "aout", "septembre", "octobre", "novembre", "decembre">>

IsLeap(y) == (y % 4 = 0 /\ y % 100 # 0) \/ y % 400 = 0

DaysIn(y, m) ==
    IF m = 2 THEN (IF IsLeap(y) THEN 29 ELSE 28)
    ELSE IF m \in {4, 6, 9, 11} THEN 30 ELSE 31

\* faulty variant of _deadline_eom_fr: the day before the first of the next month is
\* not taken
DeadlineOfNextMonth(t) ==
    LET first == IF t.m = 12 THEN [y |-> t.y + 1, m |-> 1, d |-> 1]
                 ELSE [y |-> t.y, m |-> t.m + 1, d |-> 1]
    IN  [day |-> DaysIn(first.y, first.m), month |-> MONTHS_FR[first.m]]

\* (today.replace(day=1) + relativedelta(months=1)) - relativedelta(days=1)
_deadline_eom_fr(t) ==
    LET first == IF t.m = 12 THEN [y |-> t.y + 1, m |-> 1, d |-> 1]
                 ELSE [y |-> t.y, m |-> t.m + 1, d |-> 1]
        end == IF first.m = 1 THEN [y |-> first.y - 1, m |-> 12, d |-> DaysIn(first.y - 1, 12)]
               ELSE [y |-> first.y, m |-> first.m - 1, d |-> DaysIn(first.y, first.m - 1)]
    IN  [day |-> end.d, month |-> MONTHS_FR[end.m]]

\* a key of offer_context: Missing when the key is not set
Missing == [k |-> "missing", v |-> 0]
Str(s) == [k |-> "str", v |-> 0, s |-> s]

Returned(payload) == [exc |-> "", payload |-> payload]
Raises(e) == [exc |-> e.k]

_base_llm_payload(t, persona, famille, cta, offer_context, link, price) ==
    LET discount == _pick_discount(price)
    IN  [persona |-> persona, famille |-> famille, cta |-> cta,
         deadline |-> _deadline_eom_fr(t),
         offer_context |-> offer_context,
         promo_context |-> IF Truthy(discount) THEN discount ELSE NoneV,
         details |-> link]

\* faulty variant of NoOffreContext: the generic name is missing
NoOffreContextUnnamed(cta) ==
    [offre |-> Missing, volume |-> Missing, minutes |-> Missing,
     sms |-> Missing, validite |-> Missing, prix_dh |-> Missing,
     destinations |-> Missing, details |-> Missing]

NoOffreContext(cta) ==
    [offre |-> Str("Pass " \o cta), volume |-> Missing, minutes |-> Missing,
     sms |-> Missing, validite |-> Missing, prix_dh |-> Missing,
     destinations |-> Missing, details |-> Missing]

DefaultOffreLink == "https://bit.ly/Recharge_IAM"
DefaultPhoneLink == "https://offres.iam.ma/smartphones"

\* compose_offre from the chosen offer on (pick = {} when none was chosen,
\* {chosen} otherwise)
OffrePayloadOf(t, persona, famille, cta, pick) ==
    IF pick = {} THEN Returned(_base_llm_payload(t, persona, famille, cta,
                          NoOffreContext(cta), DefaultOffreLink, NoneV))
    ELSE LET c == CHOOSE x \in pick : TRUE
             price == _safe_cast(c.prix_dh)
             volume == _fmt_volume(c.volume)
             minutes == _fmt_minutes(c.minutes)
             sms == IF Truthy(c.sms) THEN IntOfFloat(c.sms) ELSE Missing
             validite == IF Truthy(c.validite_jours) THEN IntOfFloat(c.validite_jours)
                         ELSE Missing
             offer == [offre |-> Str(IF c.libelle # "" THEN c.libelle ELSE "Pass " \o cta),
                       volume |-> IF Truthy(volume) THEN volume ELSE Missing,
                       minutes |-> IF Truthy(minutes) THEN minutes ELSE Missing,
                       sms |-> sms,
                       validite |-> IF validite = Missing THEN Missing
                                    ELSE [k |-> "jours", v |-> validite.v],
                       prix_dh |-> IF price.k # "None" THEN price ELSE Missing,
                       destinations |-> IF c.zone # "" THEN Str(c.zone) ELSE Missing,
                       details |-> IF c.link # "" THEN Str(c.link) ELSE Missing]
             link == IF c.link # "" THEN c.link ELSE DefaultOffreLink
         IN  IF Raised(volume) THEN Raises(volume)
             ELSE IF Raised(minutes) THEN Raises(minutes)
             ELSE IF Raised(sms) THEN Raises(sms)
             ELSE IF Raised(validite) THEN Raises(validite)
             ELSE Returned(_base_llm_payload(t, persona, famille, cta, offer, link, price))

NoPhoneContext ==
    [offre |-> Str("Smartphone"), modele |-> Missing, capacite |-> Missing,
     prix_dh |-> Missing]

\* compose_smartphone from the chosen smartphone on
PhonePayloadOf(t, persona, famille, pick) ==
    IF pick = {} THEN Returned(_base_llm_payload(t, persona, famille, "",
                          NoPhoneContext, DefaultPhoneLink, NoneV))
    ELSE LET c == CHOOSE x \in pick : TRUE
             price == _safe_cast(c.prix_dh)
             offer == [offre |-> Str("Smartphone"), modele |-> Str(c.modele),
                       capacite |-> Str(c.capacite),
                       prix_dh |-> IF price.k # "None" THEN price ELSE Missing]
             link == IF c.link # "" THEN c.link ELSE DefaultPhoneLink
         IN  Returned(_base_llm_payload(t, persona, famille, c.cta, offer, link, price))

-----------------------------------------------------------------------------
(* The service: construction and the two compose operations *)

MaxRows == 3

SeqsUpTo(S, n) == UNION {[1..k -> S] : k \in 0..n}

Link1 == "https://iam.ma/pass"

\* rows of offres.csv: cta, famille, libelle, volume, minutes, sms,
\* validite_jours, prix_dh, zone, link
OfferRows ==
    { OffreRow("*3", "RISQUE_Churn", "Pass 2Go", NumS(D(2048)), NumS(D(60)),
               NumS(D(100)), NumS(D(30)), NumS(D(80)), "Maroc", Link1),
      OffreRow("*3", "RISQUE_Churn", "Pass SMS", NumS(D(500)), EmptyV,
               EmptyV, NumS(D(7)), NumS(D(50)), "", ""),
      OffreRow("*3", "RISQUE_Churn", "Pass 1Go", NumS(D(1024)), NumS(D(-1)),
               NumS(D(0)), EmptyV, NumS(D(65)), "", Link1),
      OffreRow("*3", "USAGE_Internet", "", BadV, BadV,
               EmptyV, EmptyV, EmptyV, "", ""),
      OffreRow("*78", "USAGE_Voix", "Pass Voix", NumS(D(1000)), NumS(D(30)),
               NumS(D(50)), NumS(D(1)), BadV, "Europe", ""),
      OffreRow("*78", "RISQUE_Churn", "Pass Promo", EmptyV, NumS(D(10)),
               BadV, BadV, NumS(D(20)), "", "") }

Apple == <<"A","p","p","l","e">>
Nokia == <<"N","o","k","i","a">>

\* rows of smartphones.csv: marque, modele, capacite, prix_dh, link
PhoneRows ==
    { PhoneRow(Apple, "iPhone 13", "128", NumS(D(9000)), Link1),
      PhoneRow(SAMSUNG, "Galaxy A15", "", EmptyV, ""),
      PhoneRow(Nokia, "", "", BadV, "") }

Catalogs ==
    {c \in [offres : SeqsUpTo(OfferRows, MaxRows),
            smartphones : SeqsUpTo(PhoneRows, MaxRows)] :
        Len(c.offres) + Len(c.smartphones) <= MaxRows}

Personas == {"PROFIL_Econome", "PROFIL_Internet"}
Familles == {"RISQUE_Churn", "USAGE_Internet"}
Ctas == {"*3", "*78"}
PhonePersonas == {"OPPORTUNITE_AchatSmartphone", "OPPORTUNITE_AchatNouveaute"}
HsetBrands == {<<>>, <<"i","P","h","o","n","e">>, <<"N","o","k","i","a">>}

NoReq == [persona |-> "", famille |-> "", cta |-> "", hset_brand |-> <<>>]
NoResult == [exc |-> "none"]

Idle ==
    /\ op = "init"
    /\ req = NoReq
    /\ consulted = <<>>
    /\ candidates = <<>>
    /\ ranked = <<>>
    /\ choices = {}
    /\ chosen = {}
    /\ result = NoResult

\* load_catalog, then ComposeService.__init__: the handle is kept only when
\* the client library is there and get_collections() succeeded
Init ==
    /\ catalog \in Catalogs
    /\ index \in {EmptyIndex, BuildIndex(catalog)}
    /\ backendUp \in BOOLEAN
    /\ qdrant \in (IF backendUp THEN BOOLEAN ELSE {FALSE})
    /\ today = [y |-> 2024, m |-> 2, d |-> 10]
    /\ Idle

\* whether a scroll raises: always when the backend is down, possibly
\* (timeout) when it is up
Fails == IF backendUp THEN BOOLEAN ELSE {TRUE}

Picks(ch) == IF ch = {} THEN {{}} ELSE {{c} : c \in ch}

ComposeOffre(persona, famille, cta) ==
    /\ op = "init"
    /\ \E f1 \in Fails, f2 \in Fails :
        LET cons == OffreConsults(catalog, index, qdrant, famille, cta, f1, f2)
            cands == _query_offre(catalog, index, qdrant, famille, cta, f1, f2)
            rk == _rank_offres(cands, persona, famille, cta)
            ch == OffreChoices(rk, persona, famille)
        IN  \E pick \in Picks(ch) :
                /\ op' = "compose_offre"
                /\ req' = [persona |-> persona, famille |-> famille, cta |-> cta,
                           hset_brand |-> <<>>]
                /\ consulted' = cons
                /\ candidates' = cands
                /\ ranked' = rk
                /\ choices' = ch
                /\ chosen' = pick
                /\ result' = OffrePayloadOf(today, persona, famille, cta, pick)
                /\ catalog' = IF cons[Len(cons)].source = "local"
                              THEN [catalog EXCEPT !.offres =
                                       OffresAfterLocal(catalog.offres, famille, cta)]
                              ELSE catalog
                /\ UNCHANGED <<index, qdrant, backendUp, today>>

ComposeSmartphone(persona, famille, hset_brand) ==
    /\ op = "init"
    /\ \E f1 \in Fails :
        LET brand == _norm_brand(hset_brand)
            cons == PhoneConsults(catalog, index, qdrant, brand, f1)
            cands == _query_smartphone(catalog, index, qdrant, brand, f1)
            ch == PhoneChoices(cands, persona, brand)
        IN  \E pick \in Picks(ch) :
                /\ op' = "compose_smartphone"
                /\ req' = [persona |-> persona, famille |-> famille, cta |-> "",
                           hset_brand |-> hset_brand]
                /\ consulted' = cons
                /\ candidates' = cands
                /\ ranked' = <<>>
                /\ choices' = ch
                /\ chosen' = pick
                /\ result' = PhonePayloadOf(today, persona, famille, pick)
                /\ catalog' = IF cons[Len(cons)].source = "local"
                              THEN [catalog EXCEPT !.smartphones =
                                       SmartphonesAfterLocal(catalog.smartphones, brand)]
                              ELSE catalog
                /\ UNCHANGED <<index, qdrant, backendUp, today>>

\* the handler has returned its response (or its exception): the service
\* keeps nothing of the request
Respond ==
    /\ op # "init"
    /\ op' = "init"
    /\ req' = NoReq
    /\ consulted' = <<>>
    /\ candidates' = <<>>
    /\ ranked' = <<>>
    /\ choices' = {}
    /\ chosen' = {}
    /\ result' = NoResult
    /\ UNCHANGED <<catalog, index, qdrant, backendUp, today>>

BackendDown ==
    /\ op = "init"
    /\ backendUp
    /\ backendUp' = FALSE
    /\ UNCHANGED <<catalog, index, qdrant, today, op, req, consulted, candidates,
                   ranked, choices, chosen, result>>

\* faulty variant of BackendBack: the service connects again
BackendBackReconnect ==
    /\ op = "init"
    /\ ~backendUp
    /\ backendUp' = TRUE
    /\ qdrant' = TRUE
    /\ UNCHANGED <<catalog, index, today, op, req, consulted, candidates,
                   ranked, choices, chosen, result>>

BackendBack ==
    /\ op = "init"
    /\ ~backendUp
    /\ backendUp' = TRUE
    /\ UNCHANGED <<catalog, index, qdrant, today, op, req, consulted, candidates,
                   ranked, choices, chosen, result>>

Next ==
    \/ \E p \in Personas, f \in Familles, c \in Ctas : ComposeOffre(p, f, c)
    \/ \E p \in PhonePersonas, b \in HsetBrands :
          ComposeSmartphone(p, "OPPORTUNITE_Achat_Equipement", b)
    \/ Respond
    \/ BackendDown
    \/ BackendBack

Spec == Init /\ [][Next]_vars

-----------------------------------------------------------------------------
(* Ranking and offer selection on their own: _rank_offres and the selection
   of compose_offre applied to any list of candidates *)

MaxCands == 3

RankRow(volume, prix) ==
    OffreRow("*3", "USAGE_Internet", "Pass", volume, EmptyV, EmptyV, EmptyV, prix, "", "")

RankRows ==
    { RankRow(NumS(D(500)), NumS(D(50))),
      RankRow(NumS(D(2000)), NumS(D(10))),
      RankRow(NumS(D(1000)), NumS(D(30))),
      RankRow(EmptyV, BadV),
      RankRow(BadV, EmptyV),
      OffrePayload(RankRow(NumS(D(1000)), NumS(D(10)))) }

RankPersonas == {"PROFIL_Econome", "PROFIL_Internet", "PROFIL_ReseauxSociaux",
                 "CHURN_Competiteur", "PROFIL_Voyageur"}
RankFamilles == {"USAGE_Internet", "RISQUE_Churn", "OPPORTUNITE_Achat_Equipement",
                 "USAGE_Voix"}

NoService ==
    /\ catalog = [offres |-> <<>>, smartphones |-> <<>>]
    /\ index = EmptyIndex
    /\ qdrant = FALSE
    /\ backendUp = FALSE
    /\ today = [y |-> 2024, m |-> 2, d |-> 10]

InitRank ==
    /\ NoService
    /\ op = "init"
    /\ req = NoReq
    /\ consulted = <<>>
    /\ candidates \in SeqsUpTo(RankRows, MaxCands)
    /\ ranked = <<>>
    /\ choices = {}
    /\ chosen = {}
    /\ result = NoResult

RankAndSelect(persona, famille, cta) ==
    /\ op = "init"
    /\ LET rk == _rank_offres(candidates, persona, famille, cta)
           ch == OffreChoices(rk, persona, famille)
       IN  \E pick \in Picks(ch) :
               /\ op' = "rank"
               /\ req' = [persona |-> persona, famille |-> famille, cta |-> cta,
                          hset_brand |-> <<>>]
               /\ ranked' = rk
               /\ choices' = ch
               /\ chosen' = pick
               /\ UNCHANGED <<catalog, index, qdrant, backendUp, today, consulted,
                              candidates, result>>

NextRank == \E p \in RankPersonas, f \in RankFamilles, c \in Ctas : RankAndSelect(p, f, c)

SpecRank == InitRank /\ [][NextRank]_vars

-----------------------------------------------------------------------------
(* Smartphone selection on its own: _select_smartphone_candidate applied to
   lists longer than its pools *)

MaxPhones == 17

PhoneStrides == {1, 7, 11}
PhoneModuli == {19, 5}
\* every k-th price is missing (0: none is)
PhoneGaps == {0, 3, 1}

PhoneBrands == <<Apple, SAMSUNG, Nokia>>

GenPhone(i, stride, modulus, gap) ==
    PhoneRow(PhoneBrands[(i % 3) + 1], "Modele " \o ToString(i), "128",
             IF gap # 0 /\ i % gap = 0 THEN EmptyV
             ELSE NumS(D(100 * (((stride * i) % modulus) + 1))),
             "")

PhoneLists ==
    {[i \in 1..n |-> GenPhone(i, s, m, g)] :
        n \in 0..MaxPhones, s \in PhoneStrides, m \in PhoneModuli, g \in PhoneGaps}

SelectPersonas == {"OPPORTUNITE_AchatSmartphone", "OPPORTUNITE_PerformanceSmartphone",
                   "OPPORTUNITE_AchatNouveaute", "PROFIL_Econome"}
SelectBrands == {<<>>, APPLE, XIAOMI}

InitSelect ==
    /\ NoService
    /\ op = "init"
    /\ req = NoReq
    /\ consulted = <<>>
    /\ candidates \in PhoneLists
    /\ ranked = <<>>
    /\ choices = {}
    /\ chosen = {}
    /\ result = NoResult

\* brand is the normalized brand compose_smartphone passes on
SelectPhone(persona, brand) ==
    /\ op = "init"
    /\ LET ch == PhoneChoices(candidates, persona, brand)
       IN  \E pick \in Picks(ch) :
               /\ op' = "select"
               /\ req' = [persona |-> persona, famille |-> "", cta |-> "",
                          hset_brand |-> brand]
               /\ choices' = ch
               /\ chosen' = pick
               /\ UNCHANGED <<catalog, index, qdrant, backendUp, today, consulted,
                              candidates, ranked, result>>

NextSelect == \E p \in SelectPersonas, b \in SelectBrands : SelectPhone(p, b)

SpecSelect == InitSelect /\ [][NextSelect]_vars

-----------------------------------------------------------------------------
(* The formatters on their own *)

MaxTenths == 30

\* whole values the inputs are taken around: the thresholds of the formatters
\* and values beyond them
FmtAnchors == {0, 60, 100, 512, 1024, 1030, 1280, 1536, 2048, 10290}

FmtInputs ==
    {NoneV, EmptyV, BadV}
        \cup {NumS(D(a) + t) : a \in FmtAnchors, t \in -MaxTenths..MaxTenths}
        \cup {Float(D(a) + t) : a \in FmtAnchors, t \in -MaxTenths..MaxTenths}
        \cup {PyInt(a) : a \in FmtAnchors}

InitFmt ==
    /\ NoService
    /\ op = "init"
    /\ req \in FmtInputs
    /\ consulted = <<>>
    /\ candidates = <<>>
    /\ ranked = <<>>
    /\ choices = {}
    /\ chosen = {}
    /\ result = NoResult

Apply(name, value) ==
    /\ op = "init"
    /\ op' = name
    /\ result' = value
    /\ UNCHANGED <<catalog, index, qdrant, backendUp, today, req, consulted,
                   candidates, ranked, choices, chosen>>

FmtSafeCast == Apply("_safe_cast", _safe_cast(req))
FmtVolume == Apply("_fmt_volume", _fmt_volume(req))
FmtMinutes == Apply("_fmt_minutes", _fmt_minutes(req))
\* _pick_discount takes the parsed price
FmtDiscount == Apply("_pick_discount", _pick_discount(_safe_cast(req)))


\* the record compose_offre has chosen holds the input in its volume, minutes
\* and prix_dh
FmtRecord(value) ==
    OffreRow("*3", "RISQUE_Churn", "Pass", value, value, EmptyV, EmptyV, value, "", "")

FmtCompose ==
    Apply("compose_offre",
          OffrePayloadOf(today, "PROFIL_Econome", "RISQUE_Churn", "*3", {FmtRecord(req)}))

NextFmt == FmtSafeCast \/ FmtVolume \/ FmtMinutes \/ FmtDiscount \/ FmtCompose

SpecFmt == InitFmt /\ [][NextFmt]_vars

-----------------------------------------------------------------------------
(* Concurrent requests: the endpoints are plain functions, which the server
   runs in a thread pool on the one ComposeService.  Each worker runs a
   compose call step by step; a step is one scroll of the backend, the read
   of the catalog, or the rest of the call, which touches only the call's own
   variables.  op, req, consulted, candidates, ranked, choices, chosen and
   result hold one value per worker. *)

MaxWorkers == 2
MaxConcRows == 2

Workers == 1..MaxWorkers

ConcCatalogs ==
    {c \in Catalogs :
        /\ Len(c.offres) + Len(c.smartphones) <= MaxConcRows
        /\ \A i \in 1..Len(c.offres) : c.offres[i].cta = "*3"}

ConcRequests ==
    {[kind |-> "offre", persona |-> p, famille |-> "USAGE_Internet", cta |-> "*3",
      hset_brand |-> <<>>] : p \in Personas}
    \cup {[kind |-> "smartphone", persona |-> "OPPORTUNITE_AchatNouveaute",
           famille |-> "OPPORTUNITE_Achat_Equipement", cta |-> "", hset_brand |-> b] :
              b \in {<<>>, <<"i","P","h","o","n","e">>}}

NoConcReq == [kind |-> "", persona |-> "", famille |-> "", cta |-> "", hset_brand |-> <<>>]

\* faulty variant of Frame: the variable is an attribute of the service, which the
\* calls share
FrameShared(store, w) == store[CHOOSE v \in DOMAIN store : \A u \in DOMAIN store : v <= u]

\* a local variable of compose_offre / compose_smartphone: each call has its own
Frame(store, w) == store[w]

InitConc ==
    /\ catalog \in ConcCatalogs
    /\ index \in {EmptyIndex, BuildIndex(catalog)}
    /\ backendUp \in BOOLEAN
    /\ qdrant \in (IF backendUp THEN BOOLEAN ELSE {FALSE})
    /\ today = [y |-> 2024, m |-> 2, d |-> 10]
    /\ op = [w \in Workers |-> "idle"]
    /\ req = [w \in Workers |-> NoConcReq]
    /\ consulted = [w \in Workers |-> <<>>]
    /\ candidates = [w \in Workers |-> <<>>]
    /\ ranked = [w \in Workers |-> <<>>]
    /\ choices = [w \in Workers |-> {}]
    /\ chosen = [w \in Workers |-> {}]
    /\ result = [w \in Workers |-> NoResult]

\* the endpoint calls the service with the request's fields
ConcBegin(w, r) ==
    /\ op[w] = "idle"
    /\ op' = [op EXCEPT ![w] = "begun"]
    /\ req' = [req EXCEPT ![w] = r]
    /\ UNCHANGED <<catalog, index, qdrant, backendUp, today, consulted, candidates,
                   ranked, choices, chosen, result>>

\* the first query of the resolver: the strict offer query, or the smartphone
\* query; none without a handle
ConcQuery(w) ==
    /\ op[w] = "begun"
    /\ IF ~qdrant
       THEN /\ op' = [op EXCEPT ![w] = "remote_done"]
            /\ UNCHANGED <<consulted, candidates>>
       ELSE \E f \in Fails :
              LET r == req[w]
                  brand == _norm_brand(r.hset_brand)
                  found ==
                      IF r.kind = "offre"
                      THEN _query_qdrant(qdrant, index.offres,
                               << <<"type", "offre">>, <<"cta", r.cta>>,
                                  <<"famille", r.famille>> >>, f)
                      ELSE _query_qdrant(qdrant, index.smartphones,
                               << <<"type", "smartphone">> >> \o
                               (IF brand # <<>> THEN << <<"marque", brand>> >> ELSE <<>>), f)
                  source == IF r.kind = "offre" THEN "strict" ELSE "remote"
              IN  /\ consulted' = [consulted EXCEPT ![w] =
                                      @ \o << [source |-> source, found |-> found] >>]
                  /\ candidates' = [candidates EXCEPT ![w] = found]
                  /\ op' = [op EXCEPT ![w] =
                               IF found # <<>> THEN "resolved"
                               ELSE IF r.kind = "offre" THEN "strict_empty"
                               ELSE "remote_done"]
    /\ UNCHANGED <<catalog, index, qdrant, backendUp, today, req, ranked, choices,
                   chosen, result>>

\* the relaxed offer query, made when the strict one gave nothing
ConcRelaxed(w) ==
    /\ op[w] = "strict_empty"
    /\ \E f \in Fails :
          LET found == _query_qdrant(qdrant, index.offres,
                           << <<"type", "offre">>, <<"cta", req[w].cta>> >>, f)
          IN  /\ consulted' = [consulted EXCEPT ![w] =
                                  @ \o << [source |-> "relaxed", found |-> found] >>]
              /\ candidates' = [candidates EXCEPT ![w] = found]
              /\ op' = [op EXCEPT ![w] = IF found # <<>> THEN "resolved" ELSE "remote_done"]
    /\ UNCHANGED <<catalog, index, qdrant, backendUp, today, req, ranked, choices,
                   chosen, result>>

\* the local fallback
ConcLocal(w) ==
    /\ op[w] = "remote_done"
    /\ LET r == req[w]
           brand == _norm_brand(r.hset_brand)
           found == IF r.kind = "offre" THEN _local_offres(catalog.offres, r.famille, r.cta)
                    ELSE _local_smartphones(catalog.smartphones, brand)
       IN  /\ consulted' = [consulted EXCEPT ![w] =
                               @ \o << [source |-> "local", found |-> found] >>]
           /\ candidates' = [candidates EXCEPT ![w] = found]
           /\ catalog' = IF r.kind = "offre"
                         THEN [catalog EXCEPT !.offres =
                                  OffresAfterLocal(catalog.offres, r.famille, r.cta)]
                         ELSE [catalog EXCEPT !.smartphones =
                                  SmartphonesAfterLocal(catalog.smartphones, brand)]
    /\ op' = [op EXCEPT ![w] = "resolved"]
    /\ UNCHANGED <<index, qdrant, backendUp, today, req, ranked, choices, chosen, result>>

\* the rest of the call: ranking, selection and assembly, from the call's own
\* candidates
ConcFinish(w) ==
    /\ op[w] = "resolved"
    /\ LET r == req[w]
           cands == Frame(candidates, w)
           brand == _norm_brand(r.hset_brand)
           rk == IF r.kind = "offre" THEN _rank_offres(cands, r.persona, r.famille, r.cta)
                 ELSE <<>>
           ch == IF r.kind = "offre" THEN OffreChoices(rk, r.persona, r.famille)
                 ELSE PhoneChoices(cands, r.persona, brand)
       IN  \E pick \in Picks(ch) :
               /\ ranked' = [ranked EXCEPT ![w] = rk]
               /\ choices' = [choices EXCEPT ![w] = ch]
               /\ chosen' = [chosen EXCEPT ![w] = pick]
               /\ result' = [result EXCEPT ![w] =
                                IF r.kind = "offre"
                                THEN OffrePayloadOf(today, r.persona, r.famille, r.cta, pick)
                                ELSE PhonePayloadOf(today, r.persona, r.famille, pick)]
    /\ op' = [op EXCEPT ![w] = "done"]
    /\ UNCHANGED <<catalog, index, qdrant, backendUp, today, req, consulted, candidates>>

\* the endpoint has sent its response
ConcReturn(w) ==
    /\ op[w] = "done"
    /\ op' = [op EXCEPT ![w] = "idle"]
    /\ req' = [req EXCEPT ![w] = NoConcReq]
    /\ consulted' = [consulted EXCEPT ![w] = <<>>]
    /\ candidates' = [candidates EXCEPT ![w] = <<>>]
    /\ ranked' = [ranked EXCEPT ![w] = <<>>]
    /\ choices' = [choices EXCEPT ![w] = {}]
    /\ chosen' = [chosen EXCEPT ![w] = {}]
    /\ result' = [result EXCEPT ![w] = NoResult]
    /\ UNCHANGED <<catalog, index, qdrant, backendUp, today>>

\* the backend goes away or comes back while calls are running
ConcBackend ==
    /\ backendUp' = ~backendUp
    /\ UNCHANGED <<catalog, index, qdrant, today, op, req, consulted, candidates,
                   ranked, choices, chosen, result>>

NextConc ==
    \/ \E w \in Workers, r \in ConcRequests : ConcBegin(w, r)
    \/ \E w \in Workers : ConcQuery(w)
    \/ \E w \in Workers : ConcRelaxed(w)
    \/ \E w \in Workers : ConcLocal(w)
    \/ \E w \in Workers : ConcFinish(w)
    \/ \E w \in Workers : ConcReturn(w)
    \/ ConcBackend

SpecConc == InitConc /\ [][NextConc]_vars

-----------------------------------------------------------------------------
(* Brand normalization and the brand filter: compose_smartphone on any short
   text over a few letters, and on some brand names *)

MaxBrandLen == 4

BrandLetters == {"O", "P", "o", "p"}

BrandSamples ==
    { <<"i","P","h","o","n","e">>, <<"A","p","p","l","e">>, SAMSUNG,
      <<"N","o","k","i","a">>, <<"x","O","p","p","o","x">>,
      <<"O","P","P","O"," ","i","p","h","o","n","e">>,
      <<"h","o","n","o","r">>, <<"T","e","c","n","o">>, <<"X","i","a","o","m","i">>,
      <<"x","i","a","o","m">> }

BrandInputs == SeqsUpTo(BrandLetters, MaxBrandLen) \cup BrandSamples

Oppo == <<"O","p","p","o">>

BrandCatalogs ==
    [offres : {<<>>},
     smartphones : SeqsUpTo(PhoneRows \cup {PhoneRow(Oppo, "Reno", "256", NumS(D(4000)), "")}, 2)]

InitBrand ==
    /\ catalog \in BrandCatalogs
    /\ index \in {EmptyIndex, BuildIndex(catalog)}
    /\ backendUp \in BOOLEAN
    /\ qdrant \in (IF backendUp THEN BOOLEAN ELSE {FALSE})
    /\ today = [y |-> 2024, m |-> 2, d |-> 10]
    /\ Idle

NextBrand ==
    \/ \E b \in BrandInputs :
          ComposeSmartphone("OPPORTUNITE_AchatNouveaute", "OPPORTUNITE_Achat_Equipement", b)
    \/ Respond

SpecBrand == InitBrand /\ [][NextBrand]_vars

-----------------------------------------------------------------------------
(* The deadline over the calendar: a compose call on any day of a few years,
   among them a leap year, a century that is none and one that is *)

DateYears == {1900, 2000, 2023, 2024}

Dates ==
    {t \in [y : DateYears, m : 1..12, d : 1..31] : t.d <= DaysIn(t.y, t.m)}

InitDate ==
    /\ catalog = [offres |-> <<>>, smartphones |-> <<>>]
    /\ index = EmptyIndex
    /\ qdrant = FALSE
    /\ backendUp = FALSE
    /\ today \in Dates
    /\ Idle

\* compose_offre, which finds no candidate in the empty catalog
ComposeOnDate ==
    /\ op = "init"
    /\ op' = "compose_offre"
    /\ req' = [persona |-> "PROFIL_Econome", famille |-> "RISQUE_Churn", cta |-> "*3",
               hset_brand |-> <<>>]
    /\ result' = OffrePayloadOf(today, "PROFIL_Econome", "RISQUE_Churn", "*3", {})
    /\ UNCHANGED <<catalog, index, qdrant, backendUp, today, consulted, candidates,
                   ranked, choices, chosen>>

\* midnight
NextDay ==
    /\ op = "init"
    /\ today' = IF today.d < DaysIn(today.y, today.m) THEN [today EXCEPT !.d = @ + 1]
                ELSE IF today.m < 12 THEN [today EXCEPT !.m = @ + 1, !.d = 1]
                ELSE [y |-> today.y + 1, m |-> 1, d |-> 1]
    /\ today' \in Dates
    /\ UNCHANGED <<catalog, index, qdrant, backendUp, op, req, consulted, candidates,
                   ranked, choices, chosen, result>>

NextDate == ComposeOnDate \/ NextDay \/ Respond

SpecDate == InitDate /\ [][NextDate]_vars

-----------------------------------------------------------------------------
(* Properties *)

Count(s, x) == Cardinality({i \in 1..Len(s) : s[i] = x})

IsPermutation(a, b) ==
    /\ Len(a) = Len(b)
    /\ \A x \in Range(a) \cup Range(b) : Count(a, x) = Count(b, x)

\* a record's price, read off the cell: numeric strings and numbers have one
HasPrice(r) == r.prix_dh.k \in {"str_num", "float", "int"}
PriceOf(r) == IF r.prix_dh.k = "int" THEN D(r.prix_dh.v) ELSE r.prix_dh.v
PriceOrNought(r) == IF HasPrice(r) THEN PriceOf(r) ELSE 0

HasVolume(r) == r.volume.k \in {"str_num", "float", "int"}
VolumeOf(r) == IF r.volume.k = "int" THEN D(r.volume.v) ELSE r.volume.v

\* every pair of priced records is in ascending price order
AscendingPrices(s) ==
    \A i, j \in 1..Len(s) :
        (i < j /\ HasPrice(s[i]) /\ HasPrice(s[j])) => PriceOf(s[i]) <= PriceOf(s[j])

\* no adapter query yielded a record (it raised, returned nothing, or there
\* is no adapter)
AdapterGaveNothing ==
    \A i \in 1..Len(consulted) :
        consulted[i].source # "local" => consulted[i].found = <<>>

\* the catalog rows the local fallback is to return, in catalog order
LocalOffreSet ==
    LET rows == catalog.offres
        strict == {i \in 1..Len(rows) :
                      rows[i].cta = req.cta /\ rows[i].famille = req.famille}
        relaxed == {i \in 1..Len(rows) : rows[i].cta = req.cta}
    IN  FilterIdx(rows, IF strict # {} THEN strict ELSE relaxed, 1)

LocalPhoneSet ==
    LET rows == catalog.smartphones
        brand == _norm_brand(req.hset_brand)
        same == {i \in 1..Len(rows) : Upper(rows[i].marque) = brand}
    IN  IF brand # <<>> /\ same # {} THEN FilterIdx(rows, same, 1) ELSE rows

\* C1: when the adapter raises or returns nothing for every query, the
\* resolvers return the local-catalog fallback set, sorted ascending by price.
C1_ResolverFallback ==
    /\ (op = "compose_offre" /\ AdapterGaveNothing) =>
          /\ IsPermutation(candidates, LocalOffreSet)
          /\ AscendingPrices(candidates)
    /\ (op = "compose_smartphone" /\ AdapterGaveNothing) =>
          /\ IsPermutation(candidates, LocalPhoneSet)
          /\ AscendingPrices(candidates)

\* both adapter queries were made and gave nothing, and the fallback had to
\* reorder three catalog rows
C1_Witness ==
    /\ op = "compose_offre"
    /\ qdrant
    /\ Len(consulted) = 3
    /\ AdapterGaveNothing
    /\ Len(candidates) = 3
    /\ candidates # LocalOffreSet

\* C2 as stated: resolve_offers returns a non-empty sequence whenever the
\* local catalog or the adapter holds at least one offer.
C2_NonEmptyUnlessBothEmpty ==
    (op = "compose_offre" /\ (catalog.offres # <<>> \/ index.offres # <<>>))
        => candidates # <<>>

\* C2 amended: resolve_offers returns a non-empty sequence whenever the local
\* catalog holds an offer with the requested cta or an adapter query returned
\* an offer.
C2_NonEmptyWhenCtaKnown ==
    (op = "compose_offre"
        /\ (~AdapterGaveNothing
            \/ \E i \in 1..Len(catalog.offres) : catalog.offres[i].cta = req.cta))
        => candidates # <<>>

\* the local catalog answers with offers of the cta, none of the requested famille
C2_Witness ==
    /\ op = "compose_offre"
    /\ AdapterGaveNothing
    /\ candidates # <<>>
    /\ \A i \in 1..Len(candidates) : candidates[i].famille # req.famille

\* C3: compose_offre and compose_smartphone return a payload for every
\* request and every content of the records; they never raise.
C3_NoFailurePath ==
    op \in {"compose_offre", "compose_smartphone"} => result.exc = ""

C5_EconomeMinimum ==
    (op = "rank" /\ req.persona = "PROFIL_Econome" /\ ranked # <<>>) =>
        /\ Cardinality(choices) = 1
        /\ chosen = choices
        /\ \A c \in chosen :
              /\ c \in Range(ranked)
              /\ (\E i \in 1..Len(ranked) : HasPrice(ranked[i])) =>
                    /\ HasPrice(c)
                    /\ \A i \in 1..Len(ranked) :
                          HasPrice(ranked[i]) => PriceOf(c) <= PriceOf(ranked[i])

\* the ranked list starts with an entry without a price, and a priced one is chosen
C5_Witness ==
    /\ op = "rank"
    /\ req.persona = "PROFIL_Econome"
    /\ Len(ranked) = 3
    /\ ~HasPrice(ranked[1])
    /\ \E c \in chosen : HasPrice(c) /\ c # ranked[1]

MinPrice(s) ==
    CHOOSE p \in {PriceOf(s[i]) : i \in {j \in 1..Len(s) : HasPrice(s[j])}} :
        \A i \in 1..Len(s) : HasPrice(s[i]) => p <= PriceOf(s[i])

\* C6: with no adapter, a PROFIL_Econome request returns a payload whose
\* prix_dh is the minimum price of the local candidates and whose
\* prix_promo_dh is the promotional price of that price.
C6_EconomeEndToEnd ==
    (op = "compose_offre" /\ ~qdrant /\ req.persona = "PROFIL_Econome"
        /\ \E i \in 1..Len(candidates) : HasPrice(candidates[i])) =>
        /\ result.exc = ""
        /\ result.payload.offer_context.prix_dh = Float(MinPrice(candidates))
        /\ result.payload.promo_context = _pick_discount(Float(MinPrice(candidates)))

\* absent prices rank last in either direction
CheaperThan(a, c) == HasPrice(a) /\ (~HasPrice(c) \/ PriceOf(a) < PriceOf(c))
DearerThan(a, c) == HasPrice(a) /\ (~HasPrice(c) \/ PriceOf(a) > PriceOf(c))

\* C7: from a non-empty candidate list the smartphone selection returns one
\* of the 15 cheapest candidates for OPPORTUNITE_AchatSmartphone and one of
\* the 15 most expensive for OPPORTUNITE_PerformanceSmartphone.
C7_PoolMembership ==
    (op = "select" /\ candidates # <<>>
        /\ req.persona \in {"OPPORTUNITE_AchatSmartphone",
                            "OPPORTUNITE_PerformanceSmartphone"}) =>
        /\ chosen # {}
        /\ \A c \in chosen :
              /\ c \in Range(candidates)
              /\ req.persona = "OPPORTUNITE_AchatSmartphone" =>
                    Cardinality({i \in 1..Len(candidates) :
                                    CheaperThan(candidates[i], c)}) < PoolSize
              /\ req.persona = "OPPORTUNITE_PerformanceSmartphone" =>
                    Cardinality({i \in 1..Len(candidates) :
                                    DearerThan(candidates[i], c)}) < PoolSize

\* more than 15 priced candidates, and the last place of the pool is chosen
C7_Witness ==
    /\ op = "select"
    /\ req.persona = "OPPORTUNITE_PerformanceSmartphone"
    /\ Cardinality({i \in 1..Len(candidates) : HasPrice(candidates[i])}) > PoolSize
    /\ \E c \in chosen :
          Cardinality({i \in 1..Len(candidates) :
                          DearerThan(candidates[i], c)}) = PoolSize - 1

\* C8: for USAGE_Internet with PROFIL_Internet or PROFIL_ReseauxSociaux the
\* ranking is a permutation of the candidates in non-increasing volume.
C8_RankByVolume ==
    (op = "rank" /\ req.famille = "USAGE_Internet"
        /\ req.persona \in {"PROFIL_Internet", "PROFIL_ReseauxSociaux"}) =>
        /\ IsPermutation(ranked, candidates)
        /\ \A i, j \in 1..Len(ranked) :
              (i < j /\ HasVolume(ranked[i]) /\ HasVolume(ranked[j]))
                  => VolumeOf(ranked[i]) >= VolumeOf(ranked[j])

\* volumes [500, 2000, 1000] come back as [2000, 1000, 500]
C8_Witness ==
    /\ op = "rank"
    /\ req.famille = "USAGE_Internet"
    /\ req.persona = "PROFIL_Internet"
    /\ Len(candidates) = 3
    /\ \A i \in 1..3 : HasVolume(candidates[i])
    /\ [i \in 1..3 |-> VolumeOf(candidates[i])] = <<D(500), D(2000), D(1000)>>
    /\ [i \in 1..3 |-> VolumeOf(ranked[i])] = <<D(2000), D(1000), D(500)>>

Rule1 ==
    req.famille = "USAGE_Internet"
        /\ req.persona \in {"PROFIL_Internet", "PROFIL_ReseauxSociaux"}

Rule2 ==
    \/ req.famille \in {"RISQUE_Churn", "RISQUE_Impayes"}
    \/ req.persona \in {"CHURN_Competiteur", "CHURN_Prix"}
    \/ req.persona = "PROFIL_Econome"

\* C9: when rule 1 does not apply and the famille starts with RISQUE_ or the
\* persona starts with CHURN_ or is PROFIL_Econome, the ranking is a
\* permutation of the candidates in non-decreasing price, a missing price
\* counting as 0.
C9_RankByPrice ==
    (op = "rank" /\ ~Rule1 /\ Rule2) =>
        /\ IsPermutation(ranked, candidates)
        /\ \A i, j \in 1..Len(ranked) :
              i < j => PriceOrNought(ranked[i]) <= PriceOrNought(ranked[j])

\* a CHURN_ persona outside the RISQUE_ families: prices [50, 10, 30] come
\* back as [10, 30, 50]
C9_Witness ==
    /\ op = "rank"
    /\ req.famille = "USAGE_Voix"
    /\ req.persona = "CHURN_Competiteur"
    /\ Len(candidates) = 3
    /\ \A i \in 1..3 : HasPrice(candidates[i])
    /\ [i \in 1..3 |-> PriceOf(candidates[i])] = <<D(50), D(10), D(30)>>
    /\ [i \in 1..3 |-> PriceOf(ranked[i])] = <<D(10), D(30), D(50)>>

\* C10: for a persona other than PROFIL_Econome, with a famille other than
\* OPPORTUNITE_Achat_Equipement and more than one ranked candidate the chosen
\* offer is any member of the ranked list; otherwise it is the first.
C10_RandomOrFirst ==
    (op = "rank" /\ req.persona # "PROFIL_Econome" /\ ranked # <<>>) =>
        IF req.famille # "OPPORTUNITE_Achat_Equipement" /\ Len(ranked) > 1
        THEN /\ choices = Range(ranked)
             /\ \E c \in choices : chosen = {c}
        ELSE /\ choices = {ranked[1]}
             /\ chosen = {ranked[1]}

\* the last of three ranked candidates is chosen
C10_Witness ==
    /\ op = "rank"
    /\ req.persona = "PROFIL_Voyageur"
    /\ req.famille = "USAGE_Voix"
    /\ Len(ranked) = 3
    /\ ranked[3] # ranked[1]
    /\ chosen = {ranked[3]}

\* the input of a formatter is a number (a numeric string, a float, an int)
IsNumber(x) == x.k \in {"str_num", "float", "int"}
TenthsOf(x) == IF x.k = "int" THEN D(x.v) ELSE x.v

\* n is 75% of the price p (in tenths) rounded to the nearest integer, or 1
\* when that is less than 1
IsPromoOf(n, p) ==
    \/ n >= 1 /\ 40 * n - 3 * p <= 20 /\ 3 * p - 40 * n <= 20
    \/ n = 1 /\ 3 * p <= 60

\* C11: the promotional price of a defined base price is 75% of it rounded to
\* the nearest integer and floored at 1 (100 gives 75, 1 gives 1); an absent
\* base price gives no promotional price and no promo_context in the payload.
C11_PromoPrice ==
    /\ (op = "_pick_discount" /\ IsNumber(req)) =>
          /\ result.k = "int"
          /\ IsPromoOf(result.v, TenthsOf(req))
          /\ TenthsOf(req) = D(100) => result.v = 75
          /\ TenthsOf(req) = D(1) => result.v = 1
    /\ (op = "_pick_discount" /\ ~IsNumber(req)) => result = NoneV
    /\ op = "compose_offre" =>
          /\ result.exc = ""
          /\ IF IsNumber(req)
             THEN /\ result.payload.promo_context.k = "int"
                  /\ IsPromoOf(result.payload.promo_context.v, TenthsOf(req))
             ELSE result.payload.promo_context = NoneV

\* 75% of the base price rounds to 0, and the promotional price is 1
C11_Witness ==
    /\ op = "_pick_discount"
    /\ req = NumS(5)
    /\ result = PyInt(1)

\* the "Go" display of a volume m in tenths of MB: the nearest tenth of GB
IsGoOf(d, m) ==
    /\ d.k = "Go"
    /\ 1024 * d.v - m <= 512
    /\ m - 1024 * d.v <= 512

\* C12 as stated: from 1024 MB on the display is in GB, an integer count when
\* v/1024 is whole and with one decimal when it is not; below 1024 it is the
\* integer MB count; a non-numeric or absent value gives no display field.
C12_VolumeDisplay ==
    /\ (op = "_fmt_volume" /\ IsNumber(req) /\ TenthsOf(req) >= D(1024)) =>
          /\ IsGoOf(result, TenthsOf(req))
          /\ IF TenthsOf(req) % D(1024) = 0
             THEN result.dec = 0 /\ result.v = D(TenthsOf(req) \div D(1024))
             ELSE result.dec = 1
    /\ (op = "_fmt_volume" /\ IsNumber(req) /\ TenthsOf(req) < D(1024)) =>
          result = [k |-> "Mo", v |-> Trunc(TenthsOf(req))]
    /\ (op = "_fmt_volume" /\ ~IsNumber(req)) => result = NoneV
    /\ (op = "compose_offre" /\ ~IsNumber(req)) =>
          result.payload.offer_context.volume = Missing

\* C12 amended: from 1024 MB on the display is the GB value rounded to one
\* decimal, printed as an integer count when the rounded value is whole and
\* with its one decimal otherwise; below 1024 it is the integer MB count; a
\* non-numeric or absent value gives no display field.
C12_VolumeDisplayRounded ==
    /\ (op = "_fmt_volume" /\ IsNumber(req) /\ TenthsOf(req) >= D(1024)) =>
          /\ IsGoOf(result, TenthsOf(req))
          /\ result.dec = (IF result.v % 10 = 0 THEN 0 ELSE 1)
          /\ TenthsOf(req) = D(1024) => result.v = D(1)
          /\ TenthsOf(req) = D(1536) => result.v = 15
          /\ TenthsOf(req) = D(2048) => result.v = D(2)
    /\ (op = "_fmt_volume" /\ IsNumber(req) /\ TenthsOf(req) < D(1024)) =>
          result = [k |-> "Mo", v |-> Trunc(TenthsOf(req))]
    /\ (op = "_fmt_volume" /\ ~IsNumber(req)) => result = NoneV
    /\ (op = "compose_offre" /\ ~IsNumber(req)) =>
          result.payload.offer_context.volume = Missing

\* 1030 MB is not a whole number of GB and is displayed as "1 Go"
C12_Witness ==
    /\ op = "_fmt_volume"
    /\ req = NumS(D(1030))
    /\ result = [k |-> "Go", v |-> D(1), dec |-> 0]

\* C13 as stated: a numeric value is truncated to an integer; any negative
\* value displays the "unlimited" label, a value >= 0 displays "<n> min"; an
\* empty, absent or non-numeric value gives no minutes field.
C13_MinutesDisplay ==
    /\ (op = "_fmt_minutes" /\ IsNumber(req)) =>
          IF TenthsOf(req) < 0
          THEN result = [k |-> "illimite", v |-> 0]
          ELSE result = [k |-> "min", v |-> Trunc(TenthsOf(req))]
    /\ (op = "_fmt_minutes" /\ ~IsNumber(req)) => result = NoneV
    /\ (op = "compose_offre" /\ ~IsNumber(req)) =>
          result.payload.offer_context.minutes = Missing

\* C13 amended: a numeric value is truncated (towards zero) to an integer n;
\* n < 0, that is a value of -1 or less, displays the "unlimited" label, any
\* other value displays "<n> min"; an empty, absent or non-numeric value gives
\* no minutes field.
C13_MinutesDisplayTruncated ==
    /\ (op = "_fmt_minutes" /\ IsNumber(req)) =>
          /\ IF TenthsOf(req) <= D(-1)
             THEN result = [k |-> "illimite", v |-> 0]
             ELSE result = [k |-> "min", v |-> Trunc(TenthsOf(req))]
          /\ TenthsOf(req) = D(60) => result = [k |-> "min", v |-> 60]
    /\ (op = "_fmt_minutes" /\ ~IsNumber(req)) => result = NoneV
    /\ (op = "compose_offre" /\ ~IsNumber(req)) =>
          result.payload.offer_context.minutes = Missing
    /\ (op = "compose_offre" /\ IsNumber(req)) =>
          result.payload.offer_context.minutes.k \in {"illimite", "min"}

\* -0.5 is negative and is displayed as "0 min"
C13_Witness ==
    /\ op = "_fmt_minutes"
    /\ req = NumS(-5)
    /\ result = [k |-> "min", v |-> 0]

Composed == op \in {"compose_offre", "compose_smartphone"} /\ result.exc = ""

\* C14: every composed payload has offer_context.offre set; when no candidate
\* is found anywhere the payload is still returned, with the generic name
\* ("Pass <cta>", "Smartphone") in offer_context.offre, no other field in
\* offer_context, no promotional price and the fixed default link.
C14_GenericDefault ==
    /\ Composed =>
          /\ result.payload.offer_context.offre.k = "str"
          /\ result.payload.offer_context.offre.s # ""
    /\ (op = "compose_offre" /\ candidates = <<>>) =>
          /\ result.exc = ""
          /\ result.payload.offer_context.offre.s = "Pass " \o req.cta
          /\ \A f \in DOMAIN result.payload.offer_context :
                f # "offre" => result.payload.offer_context[f] = Missing
          /\ result.payload.promo_context = NoneV
          /\ result.payload.details = "https://bit.ly/Recharge_IAM"
    /\ (op = "compose_smartphone" /\ candidates = <<>>) =>
          /\ result.exc = ""
          /\ result.payload.offer_context.offre.s = "Smartphone"
          /\ \A f \in DOMAIN result.payload.offer_context :
                f # "offre" => result.payload.offer_context[f] = Missing
          /\ result.payload.promo_context = NoneV
          /\ result.payload.details = "https://offres.iam.ma/smartphones"

\* an empty catalog and an unreachable backend: the payload names "Pass *78"
C14_Witness ==
    /\ op = "compose_offre"
    /\ catalog.offres = <<>>
    /\ qdrant /\ ~backendUp
    /\ req.cta = "*78"
    /\ result.exc = ""
    /\ result.payload.offer_context.offre.s = "Pass *78"

\* a cell that is None or ""
IsEmptyCell(x) == x.k \in {"None", "str_empty"}

\* C15: a field whose source value in the chosen record is absent or empty
\* (offers: volume, minutes, sms, validite, prix_dh, destinations, details;
\* smartphones: modele, capacite, prix_dh) does not appear in offer_context.
C15_ConditionalPresence ==
    /\ (op = "compose_offre" /\ Composed) =>
          \A c \in chosen :
              LET oc == result.payload.offer_context
              IN  /\ IsEmptyCell(c.volume) => oc.volume = Missing
                  /\ IsEmptyCell(c.minutes) => oc.minutes = Missing
                  /\ IsEmptyCell(c.sms) => oc.sms = Missing
                  /\ IsEmptyCell(c.validite_jours) => oc.validite = Missing
                  /\ IsEmptyCell(c.prix_dh) => oc.prix_dh = Missing
                  /\ c.zone = "" => oc.destinations = Missing
                  /\ c.link = "" => oc.details = Missing
    /\ (op = "compose_smartphone" /\ Composed) =>
          \A c \in chosen :
              LET oc == result.payload.offer_context
              IN  /\ c.modele = "" => oc.modele = Missing
                  /\ c.capacite = "" => oc.capacite = Missing
                  /\ IsEmptyCell(c.prix_dh) => oc.prix_dh = Missing

\* C16: the catalog is read-only after load: no compose_offre or
\* compose_smartphone call, with the adapter available or not, changes the
\* catalog's offer sequence or smartphone sequence.
C16_CatalogReadOnly == [][catalog' = catalog]_vars

\* the local smartphone fallback returned the catalog's records in another
\* order than the catalog holds them
C16_Witness ==
    /\ op = "compose_smartphone"
    /\ consulted[Len(consulted)].source = "local"
    /\ Len(candidates) >= 2
    /\ IsPermutation(candidates, catalog.smartphones)
    /\ candidates # catalog.smartphones

\* what the request can return when it runs alone on the service, whatever
\* the backend does meanwhile
AloneResults(r) ==
    IF r.kind = "offre"
    THEN UNION {{OffrePayloadOf(today, r.persona, r.famille, r.cta, pick) :
                    pick \in Picks(OffreChoices(
                        _rank_offres(_query_offre(catalog, index, qdrant, r.famille, r.cta,
                                                  f[1], f[2]),
                                     r.persona, r.famille, r.cta),
                        r.persona, r.famille))} :
                f \in BOOLEAN \X BOOLEAN}
    ELSE UNION {{PhonePayloadOf(today, r.persona, r.famille, pick) :
                    pick \in Picks(PhoneChoices(
                        _query_smartphone(catalog, index, qdrant,
                                          _norm_brand(r.hset_brand), f),
                        r.persona, _norm_brand(r.hset_brand)))} :
                f \in BOOLEAN}

\* C17: under every interleaving of concurrent compose requests on the one
\* service, each request returns a payload it could return when run alone
\* against the same catalog and adapter contents.
C17_ConcurrentIndependent ==
    \A w \in Workers : op[w] = "done" => result[w] \in AloneResults(req[w])

\* a request returns while another one, of another kind, is between its
\* queries
C17_Witness ==
    /\ op[1] = "done"
    /\ op[2] = "strict_empty"
    /\ req[1].kind = "smartphone"
    /\ candidates[1] # <<>>
    /\ result[1].exc = ""

LowerChar(c) ==
    IF \E i \in 1..Len(Uppers) : Uppers[i] = c
    THEN Lowers[CHOOSE i \in 1..Len(Uppers) : Uppers[i] = c]
    ELSE c
Lower(s) == [i \in 1..Len(s) |-> LowerChar(s[i])]

BrandTokens == {APPLE, SAMSUNG, XIAOMI, OPPO, HONOR, TECNO}

\* the text holds the key, whatever the case of its letters
HoldsKey(text, key) ==
    \E i \in 0..(Len(text) - Len(key)) :
        \A j \in 1..Len(key) : LowerChar(text[i + j]) = LowerChar(key[j])

\* C18: brand normalization maps every input to a token of the alias table
\* (APPLE, SAMSUNG, XIAOMI, OPPO, HONOR, TECNO; IPHONE maps to APPLE), in
\* whatever case the input is, and every unmapped or empty brand to the empty
\* string, with which the resolver applies no brand filter.
C18_BrandNormalization ==
    op = "compose_smartphone" =>
        LET text == req.hset_brand
            brand == _norm_brand(text)
        IN  /\ brand \in BrandTokens \cup {<<>>}
            /\ brand = _norm_brand(Upper(text))
            /\ brand = _norm_brand(Lower(text))
            /\ brand # <<>> =>
                  \E key \in BrandTokens \cup {IPHONE} :
                      /\ HoldsKey(text, key)
                      /\ brand = (IF key = IPHONE THEN APPLE ELSE key)
            /\ brand = <<>> <=> \A key \in BrandTokens \cup {IPHONE} : ~HoldsKey(text, key)
            /\ HoldsKey(text, IPHONE) => brand = APPLE
            /\ brand = <<>> =>
                  \A i \in 1..Len(consulted) :
                      /\ (consulted[i].source = "remote" /\ consulted[i].found # <<>>)
                            => IsPermutation(consulted[i].found, index.smartphones)
                      /\ consulted[i].source = "local"
                            => IsPermutation(consulted[i].found, catalog.smartphones)
            /\ brand # <<>> =>
                  \A i \in 1..Len(consulted) :
                      consulted[i].source = "remote" =>
                          \A n \in 1..Len(consulted[i].found) :
                              consulted[i].found[n].marque = brand

\* "oPPo" is normalized to OPPO and the backend returns the one Oppo phone of two
C18_Witness ==
    /\ op = "compose_smartphone"
    /\ req.hset_brand = <<"o","P","P","o">>
    /\ Len(index.smartphones) = 2
    /\ Len(candidates) = 1
    /\ candidates[1].marque = OPPO

SourcesConsulted == [i \in 1..Len(consulted) |-> consulted[i].source]

\* C19: resolve_offers consults its sources in a fixed order: the relaxed
\* query only after the strict query returned nothing, the local catalog only
\* when there is no adapter or both queries yielded nothing; a non-empty
\* adapter result is what is returned, no local record added.
C19_ResolverOrder ==
    op = "compose_offre" =>
        /\ SourcesConsulted \in
              IF qdrant
              THEN { <<"strict">>, <<"strict", "relaxed">>, <<"strict", "relaxed", "local">> }
              ELSE { <<"local">> }
        /\ \A i \in 1..Len(consulted) :
              /\ i < Len(consulted) => consulted[i].found = <<>>
              /\ consulted[i].source = "strict" =>
                    \A n \in 1..Len(consulted[i].found) :
                        /\ consulted[i].found[n].cta = req.cta
                        /\ consulted[i].found[n].famille = req.famille
              /\ consulted[i].source = "relaxed" =>
                    \A n \in 1..Len(consulted[i].found) :
                        consulted[i].found[n].cta = req.cta
              /\ consulted[i].source # "local" =>
                    \A n \in 1..Len(consulted[i].found) :
                        consulted[i].found[n].type = "offre"
        /\ candidates = consulted[Len(consulted)].found

\* the strict query gave nothing, the relaxed query gave an offer, and the
\* local catalog, which holds offers, was not read
C19_Witness ==
    /\ op = "compose_offre"
    /\ SourcesConsulted = <<"strict", "relaxed">>
    /\ candidates # <<>>
    /\ catalog.offres # <<>>

\* C20: the local offer fallback returns the catalog offers matching cta and
\* famille when there are any, otherwise those matching the cta alone, sorted
\* ascending by price, an absent price counting as 0.
C20_LocalFallback ==
    (op = "compose_offre" /\ consulted[Len(consulted)].source = "local") =>
        LET rows == catalog.offres
            both == {i \in 1..Len(rows) :
                        rows[i].cta = req.cta /\ rows[i].famille = req.famille}
            ctaOnly == {i \in 1..Len(rows) : rows[i].cta = req.cta}
        IN  /\ \A r \in Range(rows) :
                  Count(candidates, r) =
                      Cardinality({i \in (IF both # {} THEN both ELSE ctaOnly) : rows[i] = r})
            /\ Len(candidates) = Cardinality(IF both # {} THEN both ELSE ctaOnly)
            /\ \A i, j \in 1..Len(candidates) :
                  i < j => PriceOrNought(candidates[i]) <= PriceOrNought(candidates[j])

\* no offer of the famille: the offers of the cta come back, the one without
\* a price moved to the front
C20_Witness ==
    /\ op = "compose_offre"
    /\ consulted[Len(consulted)].source = "local"
    /\ Len(candidates) = 2
    /\ \A i \in 1..2 : candidates[i].famille # req.famille
    /\ ~HasPrice(candidates[1])
    /\ HasPrice(candidates[2])
    /\ candidates[1] = catalog.offres[2]

\* the list is in ascending price order, an absent price counting as 0
AscendingPriceOrNought(s) ==
    \A i, j \in 1..Len(s) : i < j => PriceOrNought(s[i]) <= PriceOrNought(s[j])

\* the points of the smartphone collection a query for the brand is to return
RemotePhoneSet ==
    LET points == index.smartphones
        brand == _norm_brand(req.hset_brand)
    IN  FilterIdx(points, {i \in 1..Len(points) :
                              /\ points[i].type = "smartphone"
                              /\ brand # <<>> => points[i].marque = brand}, 1)

\* C21: resolve_smartphones queries the adapter with type=smartphone, and
\* with the brand exactly when the normalized brand is non-empty; when the
\* adapter fails or returns nothing, it returns the local records of the brand
\* when the brand is non-empty and has records, the whole catalog otherwise,
\* sorted ascending by price with an absent price counted as 0.
C21_ResolveSmartphones ==
    op = "compose_smartphone" =>
        /\ SourcesConsulted \in
              IF qdrant THEN { <<"remote">>, <<"remote", "local">> } ELSE { <<"local">> }
        /\ \A i \in 1..Len(consulted) :
              /\ i < Len(consulted) => consulted[i].found = <<>>
              /\ (consulted[i].source = "remote" /\ consulted[i].found # <<>>) =>
                    IsPermutation(consulted[i].found, RemotePhoneSet)
              /\ consulted[i].source = "local" =>
                    IsPermutation(consulted[i].found, LocalPhoneSet)
              /\ AscendingPriceOrNought(consulted[i].found)
        /\ candidates = consulted[Len(consulted)].found

\* the backend is unreachable and the catalog holds the brand's phone and
\* another one: the brand's phone alone comes back
C21_Witness ==
    /\ op = "compose_smartphone"
    /\ SourcesConsulted = <<"remote", "local">>
    /\ _norm_brand(req.hset_brand) = APPLE
    /\ Len(candidates) = 1
    /\ Len(catalog.smartphones) >= 2
    /\ Upper(candidates[1].marque) = APPLE

\* the candidates that come before c, or level with it, in ascending price
\* order with the absent prices last
NotAfter(c) ==
    {i \in 1..Len(candidates) : ~CheaperThan(c, candidates[i])}

\* C22: for OPPORTUNITE_AchatSmartphone the pool is the first 15 candidates
\* in ascending price order with the absent prices last: candidates without a
\* price are kept, and belong to the pool when fewer than 15 have a price.
C22_AbsentPriceKept ==
    (op = "select" /\ req.persona = "OPPORTUNITE_AchatSmartphone") =>
        /\ choices \subseteq Range(candidates)
        /\ \A c \in Range(candidates) :
              /\ Cardinality(NotAfter(c)) <= PoolSize => c \in choices
              /\ Cardinality({i \in 1..Len(candidates) :
                                 CheaperThan(candidates[i], c)}) >= PoolSize => c \notin choices

\* the records of the requested brand, as listed
BrandItems ==
    FilterIdx(candidates, {i \in 1..Len(candidates) :
                              Upper(candidates[i].marque) = req.hset_brand}, 1)

\* C23: for OPPORTUNITE_AchatNouveaute with a non-empty brand and a candidate
\* of that brand, the chosen smartphone has that brand; it is one of the 3
\* most expensive records of the brand when any of them has a price, one of
\* the first 3 records of the brand as listed otherwise.
C23_BrandPool ==
    (op = "select" /\ req.persona = "OPPORTUNITE_AchatNouveaute"
        /\ req.hset_brand # <<>> /\ BrandItems # <<>>) =>
        /\ chosen # {}
        /\ \A c \in chosen :
              /\ c \in Range(BrandItems)
              /\ IF \E i \in 1..Len(BrandItems) : HasPrice(BrandItems[i])
                 THEN /\ HasPrice(c)
                      /\ Cardinality({i \in 1..Len(BrandItems) :
                                         DearerThan(BrandItems[i], c)}) < TopBrand
                 ELSE c \in Range(Prefix(BrandItems, TopBrand))

\* more than 3 records of the brand, the third most expensive is chosen, and
\* a record of another brand is dearer
C23_Witness ==
    /\ op = "select"
    /\ req.persona = "OPPORTUNITE_AchatNouveaute"
    /\ req.hset_brand = APPLE
    /\ Len(BrandItems) > TopBrand
    /\ \E c \in chosen :
          /\ HasPrice(c)
          /\ Cardinality({i \in 1..Len(BrandItems) :
                             DearerThan(BrandItems[i], c)}) = TopBrand - 1
          /\ \E i \in 1..Len(candidates) :
                /\ Upper(candidates[i].marque) # APPLE
                /\ DearerThan(candidates[i], c)

\* OPPORTUNITE_AchatNouveaute was asked with a brand that no candidate has
NoBrandMatch ==
    /\ op = "compose_smartphone"
    /\ req.persona = "OPPORTUNITE_AchatNouveaute"
    /\ _norm_brand(req.hset_brand) # <<>>
    /\ \A i \in 1..Len(candidates) :
          Upper(candidates[i].marque) # _norm_brand(req.hset_brand)

GenericPhoneContext ==
    /\ result.exc = ""
    /\ result.payload.offer_context.offre = Str("Smartphone")
    /\ result.payload.offer_context.modele = Missing
    /\ result.payload.offer_context.capacite = Missing
    /\ result.payload.offer_context.prix_dh = Missing

\* C24 as stated: for OPPORTUNITE_AchatNouveaute with a non-empty brand that
\* no candidate matches, no candidate is returned and compose_smartphone
\* emits only the generic "Smartphone" context.
C24_NoMatchNoCandidate ==
    NoBrandMatch => (chosen = {} /\ GenericPhoneContext)

\* C24 amended: for OPPORTUNITE_AchatNouveaute with a non-empty brand that no
\* candidate matches, the selection falls back to the full ascending-by-price
\* list: with candidates, one of them is returned (a priced one when any has
\* a price) and its model is emitted; only without candidates is the context
\* the generic one.
C24_NoMatchFallsBack ==
    NoBrandMatch =>
        IF candidates = <<>>
        THEN chosen = {} /\ GenericPhoneContext
        ELSE /\ chosen # {}
             /\ \A c \in chosen :
                   /\ c \in Range(candidates)
                   /\ (\E i \in 1..Len(candidates) : HasPrice(candidates[i])) => HasPrice(c)
                   /\ result.exc = ""
                   /\ result.payload.offer_context.modele = Str(c.modele)
                   /\ result.payload.offer_context.capacite = Str(c.capacite)

\* an Apple phone was asked for, the catalog has none, and a Samsung comes back
C24_Witness ==
    /\ NoBrandMatch
    /\ _norm_brand(req.hset_brand) = APPLE
    /\ \E c \in chosen : c.marque = SAMSUNG
    /\ result.payload.offer_context.modele = Str("Galaxy A15")

\* C25: for a persona other than the three OPPORTUNITE smartphone personas,
\* and for OPPORTUNITE_AchatNouveaute with an empty brand, the pool is the
\* entire candidate set: every candidate, with or without a price, can be
\* picked, and the chosen one is a candidate.
C25_WholeSetPool ==
    (op = "select"
        /\ \/ req.persona \notin {"OPPORTUNITE_AchatSmartphone",
                                   "OPPORTUNITE_PerformanceSmartphone",
                                   "OPPORTUNITE_AchatNouveaute"}
           \/ req.persona = "OPPORTUNITE_AchatNouveaute" /\ req.hset_brand = <<>>) =>
        /\ choices = Range(candidates)
        /\ chosen \subseteq choices
        /\ candidates # <<>> => chosen # {}

\* C26: smartphone selection returns none only when the candidate set is
\* empty; when the persona's pool is empty and there are candidates, the pick
\* is made from the full ascending-by-price list.
C26_NoneOnlyWhenEmpty ==
    op = "select" =>
        /\ chosen = {} <=> candidates = <<>>
        /\ chosen \subseteq Range(candidates)
        /\ (req.persona = "OPPORTUNITE_AchatNouveaute" /\ req.hset_brand # <<>>
                /\ BrandItems = <<>>) =>
              choices = IF \E i \in 1..Len(candidates) : HasPrice(candidates[i])
                        THEN {c \in Range(candidates) : HasPrice(c)}
                        ELSE Range(candidates)

\* no candidate has the brand asked for, none has a price, and one is chosen
C26_Witness ==
    /\ op = "select"
    /\ req.persona = "OPPORTUNITE_AchatNouveaute"
    /\ req.hset_brand = XIAOMI
    /\ Len(candidates) >= 2
    /\ \A i \in 1..Len(candidates) : ~HasPrice(candidates[i])
    /\ chosen # {}

\* the last day of month m of year y, by the calendar's rule
LastDayOf(y, m) ==
    CASE m \in {1, 3, 5, 7, 8, 10, 12} -> 31
      [] m \in {4, 6, 9, 11} -> 30
      [] OTHER -> IF y % 400 = 0 \/ (y % 4 = 0 /\ y % 100 # 0) THEN 29 ELSE 28

\* C27: for every current date the payload's deadline is "<day> <month>",
\* the day being the last calendar day of the current month and the month the
\* label, among the 12, of the current month.
C27_DeadlineEndOfMonth ==
    op = "compose_offre" =>
        /\ result.exc = ""
        /\ result.payload.deadline.day = LastDayOf(today.y, today.m)
        /\ result.payload.deadline.month = MONTHS_FR[today.m]
        /\ Len(MONTHS_FR) = 12
        /\ \A m \in 1..12 : m # today.m => result.payload.deadline.month # MONTHS_FR[m]

\* in February 1900, not a leap year, the deadline is the 28th
C27_Witness ==
    /\ op = "compose_offre"
    /\ today.y = 1900 /\ today.m = 2 /\ today.d = 28
    /\ result.payload.deadline = [day |-> 28, month |-> "fevrier"]

\* C28: in every composed payload promo_context is present exactly when
\* offer_context.prix_dh is, and the promotional price is at least 1 and at
\* most the base price shown, for every defined base price, 0 included.
C28_PromoWithinPrice ==
    (op = "compose_offre" /\ result.exc = "") =>
        /\ result.payload.promo_context # NoneV
              <=> result.payload.offer_context.prix_dh # Missing
        /\ (/\ result.payload.offer_context.prix_dh # Missing
            /\ result.payload.offer_context.prix_dh.v >= 0) =>
              /\ 1 <= result.payload.promo_context.v
              /\ D(result.payload.promo_context.v) <= result.payload.offer_context.prix_dh.v

\* C29: when the handle is absent after construction (backend unreachable,
\* client library missing) it stays absent: no later compose request queries
\* the backend, every resolution reads the local catalog only, also after the
\* backend has become reachable.
C29_HandleStaysAbsent ==
    [][~qdrant =>
          /\ ~qdrant'
          /\ op' \in {"compose_offre", "compose_smartphone"} =>
                /\ Len(consulted') = 1
                /\ consulted'[1].source = "local"
                /\ candidates' = consulted'[1].found]_vars

\* the backend answers and its index holds the offer asked for, the service
\* has no handle and reads the catalog
C29_Witness ==
    /\ op = "compose_offre"
    /\ ~qdrant
    /\ backendUp
    /\ \E i \in 1..Len(index.offres) :
          index.offres[i].cta = req.cta /\ index.offres[i].famille = req.famille
    /\ SourcesConsulted = <<"local">>

\* C30: compose_offre never surfaces an offer of another call-to-action: the
\* chosen offer's cta is the requested cta, and so is the payload's cta.
C30_SameCta ==
    op = "compose_offre" =>
        /\ \A c \in chosen : c.cta = req.cta
        /\ \A i \in 1..Len(candidates) : candidates[i].cta = req.cta
        /\ result.exc = "" => result.payload.cta = req.cta

\* the catalog holds offers of two call-to-actions, none of the famille asked
\* for, and an offer of the requested call-to-action is chosen
C30_Witness ==
    /\ op = "compose_offre"
    /\ \E i \in 1..Len(catalog.offres) : catalog.offres[i].cta # req.cta
    /\ SourcesConsulted[Len(consulted)] = "local"
    /\ \E c \in chosen : c.cta = req.cta /\ c.famille # req.famille

====
